---- MODULE Spec2Model ----
(***************************************************************************)
(* bevy_simple_scroll_view: the three input systems (mouse drag, touch     *)
(* drag, mouse wheel), the style sink scroll_update and the example's      *)
(* reset_scroll, as a state machine over one frame after the other.        *)
(*                                                                         *)
(* A frame runs the plugin's chain (lib.rs 25-34) in order; pc names the   *)
(* system that runs next.  Each input system is a loop over the events of  *)
(* the frame: one step resolves one event, one step ends the loop.         *)
(*                                                                         *)
(* Lengths are integers (one unit of layout length); the code's f32        *)
(* arithmetic is exact on them.  NaN and infinite inputs are not modelled. *)
(***************************************************************************)
EXTENDS Integers, Sequences, FiniteSets

VARIABLES
    children,      \* region -> its Children, in order
    interaction,   \* region -> Interaction
    propagate,     \* region -> ScrollView::propagate
    scroll_speed,  \* region -> ScrollView::scroll_speed
    node_h,        \* region -> Node::size().y of the region node
    content_h,     \* content -> Node::size().y of the content node
    pos_y,         \* content -> ScrollableContent::pos_y
    top,           \* content -> Style::top, NoStyle for a content without Style
    changed,       \* contents whose ScrollableContent is flagged Changed
    delta_secs,    \* time.delta().as_secs_f32() of the current frame
    pc,            \* the next system of the chain to run in this frame
    last,          \* history: which step ran last and, for an event, its locals
    watch          \* history: the latest external write and the frame after it

vars == <<children, interaction, propagate, scroll_speed, node_h, content_h,
          pos_y, top, changed, delta_secs, pc, last, watch>>

-----------------------------------------------------------------------------
(* Bounds of the model. *)

\* raw input deltas (MouseMotion.delta.y, Touch::delta().y, MouseWheel.y)
MaxRaw == 1
\* largest content height the layout produces
MaxContent == 4

RawDeltas == (0 - MaxRaw)..MaxRaw
ContentHeights == {1, MaxContent}
NodeHeights == {2}
FrameDeltas == {1}
\* values external code writes to pos_y: in range, above it, below a small one
WriteValues == {0 - 1, 0, 1}

Regions == {"outer", "inner"}
\* The order in which the ScrollView query yields the regions: an enclosing
\* region before the regions nested in it.
QueryOrder == <<"outer", "inner">>
Interactions == {"None", "Hovered", "Pressed"}
Systems == {"mouse", "touch", "wheel"}

\* The UI tree of examples/simple.rs, reduced: the outer region holds a plain
\* node and its content, the inner region (nested in the outer content) holds
\* its content.
Tree == [r \in Regions |-> IF r = "outer" THEN <<"label", "a">> ELSE <<"b">>]
Contents == {"a", "b"}

\* The values of Style::top: Val::Auto and Val::Px(v); NoStyle stands for a
\* content entity that carries no Style.
Auto == <<"Auto">>

Px(v) == <<"Px", v>>

NoStyle == <<"NoStyle">>

-----------------------------------------------------------------------------
(* The offset engine: lib.rs 104-118, 158-172, 219-234. *)

Max(a, b) == IF a >= b THEN a ELSE b

\* Mutants of Clamp: one bound forgotten.
ClampUpperOnly(x, lo, hi) == IF x > hi THEN hi ELSE x

ClampLowerOnly(x, lo, hi) == IF x < lo THEN lo ELSE x

\* f32::clamp
Clamp(x, lo, hi) == IF x < lo THEN lo ELSE IF x > hi THEN hi ELSE x

\* Mutant of MaxScroll: the viewport height not subtracted.
MaxScrollOfContent(content_size, container_height) == Max(content_size, 0)

\* let max_scroll = (item.1.size().y - container_height).max(0.0);
MaxScroll(content_size, container_height) == Max(content_size - container_height, 0)

\* Mutant of WillClamp: the bounds tested on the clamped position.
WillClampAfterClamping(new_pos, max_scroll) ==
    LET p == IF new_pos < 0 - max_scroll THEN 0 - max_scroll
             ELSE IF new_pos > 0 THEN 0 ELSE new_pos
    IN p < 0 - max_scroll \/ p > 0

\* let will_clamp = new_pos < -max_scroll || new_pos > 0.;
WillClamp(new_pos, max_scroll) == new_pos < 0 - max_scroll \/ new_pos > 0

\* Mutant of NewOffset: the clamp left out.
NewOffsetUnclamped(p, y, max_scroll) == p + y

\* scroll.pos_y += y; scroll.pos_y = scroll.pos_y.clamp(-max_scroll, 0.);
NewOffset(p, y, max_scroll) == Clamp(p + y, 0 - max_scroll, 0)

\* Mutants of ChildApplies: a clipped delta counts too; the overflow is not asked for.
ChildAppliesWhenClipped(will_clamp, max_scroll) == max_scroll > 0

ChildAppliesWithoutOverflow(will_clamp, max_scroll) == ~will_clamp

\* if !will_clamp && max_scroll > 0.0 { scroll_applied = true; }
ChildApplies(will_clamp, max_scroll) == ~will_clamp /\ max_scroll > 0

\* Mutants of Consumes: the flag read the wrong way round; the flag not read.
ConsumesWhenPropagating(scroll_applied, prop) == scroll_applied /\ prop

ConsumesWhateverPropagate(scroll_applied, prop) == scroll_applied

\* if scroll_applied && !scroll_view.propagate { consumed = true; }
Consumes(scroll_applied, prop) == scroll_applied /\ ~prop

\* content_q.get_mut(child) succeeds for the entities that carry ScrollableContent
IsContent(e) == e \in DOMAIN pos_y

\* The wheel amount of one candidate: the match on ev.unit (208-213) ...
WheelAmount(unit, raw, speed) ==
    IF unit = "Line" THEN raw * delta_secs * speed ELSE raw

\* Mutant of WheelChildDelta: the amount used as the match left it.
WheelChildDeltaUnscaled(y, speed) == y

\* ... and the per-child rescaling (220).
WheelChildDelta(y, speed) == y * delta_secs * speed

\* Mutant of ChildDelta: the touch delta scaled by the region's scroll_speed.
ChildDeltaTouchScaled(ev, r) ==
    CASE ev.kind = "mouse" -> ev.y
      [] ev.kind = "touch" -> ev.y * scroll_speed[r]
      [] OTHER ->
           WheelChildDelta(WheelAmount(ev.unit, ev.y, scroll_speed[r]), scroll_speed[r])

\* The delta one candidate applies to each of its content children:
\* evt.delta.y (109, 112), touch.delta().y (163, 166), y (225, 228).
ChildDelta(ev, r) ==
    CASE ev.kind = "mouse" -> ev.y
      [] ev.kind = "touch" -> ev.y
      [] OTHER ->
           WheelChildDelta(WheelAmount(ev.unit, ev.y, scroll_speed[r]), scroll_speed[r])

\* Mutant of AfterMiss: the loop over the children ends at the first miss.
AfterMissStop(kids, i) == Len(kids) + 1

\* if let Ok(item) = content_q.get_mut(child) { .. }: after a miss the loop
\* goes on with the next child
AfterMiss(kids, i) == i + 1

\* Mutant of ScrollApplied: the last content child decides.
ScrollAppliedLastChild(scroll_applied, child_applies) == child_applies

\* let mut scroll_applied = false; ... if .. { scroll_applied = true; }
ScrollApplied(scroll_applied, child_applies) == scroll_applied \/ child_applies

\* for &child in children.iter() { if let Ok(item) = content_q.get_mut(child) {..} }
\* st = [pos, changed, applied, kids]
RECURSIVE EvalChildren(_, _, _, _, _)
EvalChildren(kids, i, y, container_height, st) ==
    IF i > Len(kids) THEN st
    ELSE LET child == kids[i] IN
         IF ~IsContent(child)
         THEN EvalChildren(kids, AfterMiss(kids, i), y, container_height, st)
         ELSE LET max_scroll == MaxScroll(content_h[child], container_height)
                  new_pos == st.pos[child] + y
                  will_clamp == WillClamp(new_pos, max_scroll)
                  entry == [child |-> child, max_scroll |-> max_scroll,
                            new_pos |-> new_pos, will_clamp |-> will_clamp]
              IN EvalChildren(kids, i + 1, y, container_height,
                    [pos |-> [st.pos EXCEPT ![child] =
                                 NewOffset(st.pos[child], y, max_scroll)],
                     changed |-> st.changed \cup {child},
                     applied |-> ScrollApplied(st.applied,
                                               ChildApplies(will_clamp, max_scroll)),
                     kids |-> Append(st.kids, entry)])

\* The candidates of an event, innermost first:
\* q.iter_mut().filter(interaction == want).collect(), then .into_iter().rev()
RECURSIVE Reverse(_)
Reverse(s) == IF s = <<>> THEN <<>> ELSE Append(Reverse(Tail(s)), Head(s))

\* Mutant of IsWanted: every region the pointer is on is a candidate.
IsWantedAny(r, want) == interaction[r] # "None"

\* .filter(|(_, &interaction, _, _)| interaction == Interaction::Pressed)
IsWanted(r, want) == interaction[r] = want

Candidates(want) ==
    LET Keep(r) == IsWanted(r, want) IN Reverse(SelectSeq(QueryOrder, Keep))

WantedInteraction(kind) == IF kind = "wheel" THEN "Hovered" ELSE "Pressed"

\* Mutant of Skips: the candidates after a consumption are evaluated too.
SkipsNever(consumed) == FALSE

\* if consumed { continue; }
Skips(consumed) == consumed

\* for (children, _, scroll_view, node) in ...rev() { if consumed { continue; } ... }
\* st = [pos, changed, consumed, evals]
RECURSIVE ResolveFrom(_, _, _, _)
ResolveFrom(cands, i, ev, st) ==
    IF i > Len(cands) THEN st
    ELSE LET r == cands[i] IN
         IF Skips(st.consumed)
         THEN ResolveFrom(cands, i + 1, ev,
                [st EXCEPT !.evals = Append(@,
                    [region |-> r, skipped |-> TRUE, y |-> 0, kids |-> <<>>,
                     scroll_applied |-> FALSE, consumed |-> TRUE])])
         ELSE LET y == ChildDelta(ev, r)
                  done == EvalChildren(children[r], 1, y, node_h[r],
                             [pos |-> st.pos, changed |-> st.changed,
                              applied |-> FALSE, kids |-> <<>>])
                  consumed == Consumes(done.applied, propagate[r])
              IN ResolveFrom(cands, i + 1, ev,
                    [pos |-> done.pos, changed |-> done.changed,
                     consumed |-> consumed,
                     evals |-> Append(st.evals,
                        [region |-> r, skipped |-> FALSE, y |-> y,
                         kids |-> done.kids, scroll_applied |-> done.applied,
                         consumed |-> consumed])])

\* Mutant of InitialConsumed: the flag declared outside of the loop over the
\* events, so that an event starts with what the event before it left.
InitialConsumedCarried ==
    last.sys = pc /\ \E i \in DOMAIN last.evals : last.evals[i].consumed

\* let mut consumed = false;
InitialConsumed == FALSE

\* One event, resolved against the regions as they are.
ResolveAt(p, ev) ==
    ResolveFrom(Candidates(WantedInteraction(ev.kind)), 1, ev,
                [pos |-> p, changed |-> changed, consumed |-> InitialConsumed,
                 evals |-> <<>>])

Resolve(ev) == ResolveAt(pos_y, ev)

-----------------------------------------------------------------------------
(* History variables.                                                       *)
(*                                                                          *)
(* last.sys names the step taken last.  After an event step last holds the  *)
(* event, the offsets before it (pre) and, per candidate in the order of    *)
(* evaluation, the locals of the loop body (evals).  The step that ends a   *)
(* system's loop clears the record.                                         *)

NoEvent(what, p) == [sys |-> what, ev |-> [kind |-> "none", unit |-> "none", y |-> 0],
                     pre |-> p, evals |-> <<>>]

EventLog(ev, res) == [sys |-> ev.kind, ev |-> ev, pre |-> pos_y, evals |-> res.evals]

\* A system is in the middle of its event loop.
InLoop == last.sys = pc

\* The contents the resolution of an event evaluated.
Evaluated(evals) ==
    {e \in Contents : \E i \in DOMAIN evals :
        \E k \in DOMAIN evals[i].kids : evals[i].kids[k].child = e}

(* watch follows one external write of pos_y made between two frames:      *)
(* content c, value v, whether the write changed the offset (moved) and who *)
(* wrote (by).  stage is "fresh" from the write until the next frame        *)
(* begins, "in" during that frame, "done" in the state at its end; hit      *)
(* records that an event of that frame was evaluated against c.  A write    *)
(* made in the middle of a frame is not followed.  "off" never follows      *)
(* anything.                                                                *)
(*                                                                          *)
(* In the stage "batch" watch follows the events of a system's loop         *)
(* in the place of the writes: hit records that the event before the last   *)
(* one, in the same loop, was consumed.                                     *)

WatchOff == [c |-> "none", v |-> 0, moved |-> FALSE, by |-> "none", stage |-> "off",
             hit |-> FALSE]

NoWatch == [WatchOff EXCEPT !.stage = "none"]

WatchBatch == [WatchOff EXCEPT !.stage = "batch"]

\* The last step was an event of the loop that is running, and it was consumed.
ConsumedInLoop == InLoop /\ \E i \in DOMAIN last.evals : last.evals[i].consumed

WatchWrite(c, v, by) ==
    IF watch.stage \in {"off", "batch"} THEN watch
    ELSE IF pc # "mouse" THEN NoWatch
    ELSE [c |-> c, v |-> v, moved |-> pos_y[c] # v, by |-> by, stage |-> "fresh",
          hit |-> FALSE]

WatchAfterEvent(sys, res) ==
    LET touched == watch.c \in Evaluated(res.evals) IN
    CASE watch.stage = "done" -> NoWatch
      [] watch.stage = "batch" -> [watch EXCEPT !.hit = ConsumedInLoop]
      [] watch.stage = "fresh" /\ sys = "mouse" ->
            [watch EXCEPT !.stage = "in", !.hit = touched]
      [] watch.stage = "in" -> [watch EXCEPT !.hit = @ \/ touched]
      [] OTHER -> watch

WatchAfterDone(sys) ==
    CASE watch.stage = "done" -> NoWatch
      [] watch.stage = "batch" -> [watch EXCEPT !.hit = FALSE]
      [] watch.stage = "fresh" /\ sys = "mouse" -> [watch EXCEPT !.stage = "in"]
      [] OTHER -> watch

WatchAfterSink == IF watch.stage = "in" THEN [watch EXCEPT !.stage = "done"] ELSE watch

WatchAfterEnv == IF watch.stage = "done" THEN NoWatch ELSE watch

-----------------------------------------------------------------------------
(* Construction: the regions after create_scroll_view (67-78) attached      *)
(* Interaction::None, the contents with ScrollableContent::default().       *)

DefaultOffsets == [c \in Contents |-> 0]

InitWith(props, speeds, node_hs, content_hs, tops, w) ==
    /\ children = Tree
    /\ interaction = [r \in Regions |-> "None"]
    /\ propagate \in props
    /\ scroll_speed \in speeds
    /\ node_h \in [Regions -> node_hs]
    /\ content_h \in [Contents -> content_hs]
    /\ pos_y = DefaultOffsets
    /\ top \in [Contents -> tops]
    /\ changed = Contents
    /\ delta_secs \in FrameDeltas
    /\ pc = "mouse"
    /\ last = NoEvent("init", DefaultOffsets)
    /\ watch = w

Propagates == [Regions -> BOOLEAN]

\* ScrollView::default(): propagate: false
DefaultPropagates == {[r \in Regions |-> FALSE]}

NestedSpeeds == {[r \in Regions |-> IF r = "outer" THEN 2 ELSE 0 - 1]}

\* The input systems and external code never read a Style: the contents of
\* Spec carry none, so that scroll_update has nothing of theirs to write.
Init ==
    InitWith(Propagates, NestedSpeeds, NodeHeights, ContentHeights, {NoStyle},
             WatchOff)

-----------------------------------------------------------------------------
(* The environment, between two frames. *)

BetweenFrames == pc = "mouse" /\ ~InLoop

\* bevy_ui's focus system recomputes a region's Interaction.
SetInteraction(r, i) ==
    /\ BetweenFrames
    /\ interaction[r] # i
    /\ interaction' = [interaction EXCEPT ![r] = i]
    /\ last' = NoEvent("env", pos_y)
    /\ watch' = WatchAfterEnv
    /\ UNCHANGED <<children, propagate, scroll_speed, node_h, content_h, pos_y,
                   top, changed, delta_secs, pc>>

\* bevy_ui's layout system recomputes the size of a content node.
Layout(c, h) ==
    /\ BetweenFrames
    /\ content_h[c] # h
    /\ content_h' = [content_h EXCEPT ![c] = h]
    /\ last' = NoEvent("layout", pos_y)
    /\ watch' = WatchAfterEnv
    /\ UNCHANGED <<children, interaction, propagate, scroll_speed, node_h, pos_y,
                   top, changed, delta_secs, pc>>

-----------------------------------------------------------------------------
(* External code: a system of the application, not ordered against the      *)
(* plugin's chain, so it runs before or after any system of a frame.        *)

\* "It is possible to update the field pos_y manually" (lib.rs 59-65)
ExternalWrite(c, v) ==
    /\ ~InLoop
    /\ pos_y' = [pos_y EXCEPT ![c] = v]
    /\ changed' = changed \cup {c}
    /\ last' = NoEvent("ext", pos_y')
    /\ watch' = WatchWrite(c, v, "ext")
    /\ UNCHANGED <<children, interaction, propagate, scroll_speed, node_h,
                   content_h, top, delta_secs, pc>>

\* Mutant of ResetValue: only the outer content is reset.
ResetOuterOnly == [c \in Contents |-> IF c = "a" THEN 0 ELSE pos_y[c]]

\* scroll.pos_y = 0.0 for every ScrollableContent
ResetValue == [c \in Contents |-> 0]

\* examples/simple.rs reset_scroll, in a frame in which the button became
\* Pressed; w is the content the history follows.
reset_scroll(w) ==
    /\ ~InLoop
    /\ pos_y' = ResetValue
    /\ changed' = Contents
    /\ last' = NoEvent("reset", pos_y')
    /\ watch' = WatchWrite(w, pos_y'[w], "reset")
    /\ UNCHANGED <<children, interaction, propagate, scroll_speed, node_h,
                   content_h, top, delta_secs, pc>>

-----------------------------------------------------------------------------
(* The plugin's chain. *)

\* The body of a system's loop over its events, for one event: its unit
\* (of a wheel event) and its raw delta.
Event(sys, unit, dy) ==
    /\ pc = sys
    /\ LET ev == [kind |-> sys, unit |-> unit, y |-> dy]
           res == Resolve(ev)
       IN
        /\ pos_y' = res.pos
        /\ changed' = res.changed
        /\ last' = EventLog(ev, res)
        /\ watch' = WatchAfterEvent(sys, res)
    /\ UNCHANGED <<children, interaction, propagate, scroll_speed, node_h,
                   content_h, top, delta_secs, pc>>

\* The end of a system's loop: the next system of the chain runs.
SystemDone(sys, next) ==
    /\ pc = sys
    /\ pc' = next
    /\ last' = NoEvent("done", pos_y)
    /\ watch' = WatchAfterDone(sys)
    /\ UNCHANGED <<children, interaction, propagate, scroll_speed, node_h,
                   content_h, pos_y, top, changed, delta_secs>>

\* input_mouse_pressed_move: for evt in motion_evr.read() { ... }
MouseMotion(dy) == Event("mouse", "none", dy)

MouseDone == SystemDone("mouse", "touch")

\* input_touch_pressed_move: for t in touches.iter() { ... }; Touches::iter
\* yields the pressed touches, so get_pressed finds each of them.
TouchMove(dy) == Event("touch", "none", dy)

TouchDone == SystemDone("touch", "wheel")

\* scroll_events: for ev in scroll_evr.read() { ... }
Wheel(unit, raw) == Event("wheel", unit, raw)

WheelDone == SystemDone("wheel", "update")

\* Mutant of SinkMatches: the filter Added in the place of Changed.
SinkMatchesOnlyOnce(c) == c \in changed /\ top[c] = Auto

\* Query<(&ScrollableContent, &mut Style), Changed<ScrollableContent>>
SinkMatches(c) == c \in changed /\ top[c] # NoStyle

\* scroll_update: style.top = Val::Px(scroll.pos_y) for the contents it matches
scroll_update ==
    /\ pc = "update"
    /\ top' = [c \in Contents |-> IF SinkMatches(c) THEN Px(pos_y[c]) ELSE top[c]]
    /\ changed' = {}
    /\ pc' = "mouse"
    /\ last' = NoEvent("update", pos_y)
    /\ watch' = WatchAfterSink
    /\ UNCHANGED <<children, interaction, propagate, scroll_speed, node_h,
                   content_h, pos_y, delta_secs>>

WheelUnits == {"Line", "Pixel"}

Next ==
    \/ \E r \in Regions, i \in Interactions : SetInteraction(r, i)
    \/ \E c \in Contents, h \in ContentHeights : Layout(c, h)
    \/ \E c \in Contents, v \in WriteValues : ExternalWrite(c, v)
    \/ \E w \in Contents : reset_scroll(w)
    \/ \E dy \in RawDeltas : MouseMotion(dy)
    \/ MouseDone
    \/ \E dy \in RawDeltas : TouchMove(dy)
    \/ TouchDone
    \/ \E unit \in WheelUnits, raw \in RawDeltas : Wheel(unit, raw)
    \/ WheelDone
    \/ scroll_update

Spec == Init /\ [][Next]_vars

\* The drag of the boundary-clipping example: viewport 100, content 200 or 150,
\* mouse motions of +50, -50 and -80, and nothing else moving the contents.
ClipNodeHeights == {100}

ClipContentHeights == {150, 200}

ClipDeltas == {50, 0 - 50, 0 - 80}

InitClip ==
    InitWith(Propagates, NestedSpeeds, ClipNodeHeights, ClipContentHeights, {NoStyle},
             WatchOff)

NextClip ==
    \/ \E r \in Regions, i \in Interactions : SetInteraction(r, i)
    \/ \E dy \in ClipDeltas : MouseMotion(dy)
    \/ MouseDone
    \/ TouchDone
    \/ WheelDone
    \/ scroll_update

SpecClip == InitClip /\ [][NextClip]_vars

\* The same program with the history of external writes switched on, the
\* regions as ScrollView::default() configures them.
InitWatch ==
    InitWith(DefaultPropagates, NestedSpeeds, NodeHeights, ContentHeights, {NoStyle},
             NoWatch)

SpecWatch == InitWatch /\ [][Next]_vars

\* The same program, the contents carrying a Style whose top starts as
\* Style::default() leaves it, the regions as ScrollView::default() configures
\* them.
DefaultTops == {Auto}

InitSink ==
    InitWith(DefaultPropagates, NestedSpeeds, NodeHeights, ContentHeights, DefaultTops,
             WatchOff)

SpecSink == InitSink /\ [][Next]_vars

\* Wheel scrolling alone, over frames of more than one length: both contents
\* overflow far enough to take the largest delta, the inner region lets the
\* events through to the outer one.
WheelFrameDeltas == {1, 2}

WheelNodeHeights == {2}

WheelContentHeights == {20}

WheelPropagates == {[r \in Regions |-> r = "inner"]}

InitWheel ==
    /\ children = Tree
    /\ interaction = [r \in Regions |-> "None"]
    /\ propagate \in WheelPropagates
    /\ scroll_speed \in NestedSpeeds
    /\ node_h \in [Regions -> WheelNodeHeights]
    /\ content_h \in [Contents -> WheelContentHeights]
    /\ pos_y = DefaultOffsets
    /\ top \in [Contents -> {NoStyle}]
    /\ changed = Contents
    /\ delta_secs \in WheelFrameDeltas
    /\ pc = "mouse"
    /\ last = NoEvent("init", DefaultOffsets)
    /\ watch = WatchOff

NextWheel ==
    \/ \E r \in Regions, i \in Interactions : SetInteraction(r, i)
    \/ MouseDone
    \/ TouchDone
    \/ \E unit \in WheelUnits, raw \in RawDeltas : Wheel(unit, raw)
    \/ WheelDone
    \/ scroll_update

SpecWheel == InitWheel /\ [][NextWheel]_vars

\* Another UI tree: the outer region holds two contents with a plain node
\* between them, the inner region holds no content at all.
FlatTree == [r \in Regions |-> IF r = "outer" THEN <<"a", "label", "b">> ELSE <<>>]

InitFlat ==
    /\ children = FlatTree
    /\ interaction = [r \in Regions |-> "None"]
    /\ propagate \in Propagates
    /\ scroll_speed \in NestedSpeeds
    /\ node_h \in [Regions -> NodeHeights]
    /\ content_h \in [Contents -> ContentHeights]
    /\ pos_y = DefaultOffsets
    /\ top \in [Contents -> {NoStyle}]
    /\ changed = Contents
    /\ delta_secs \in FrameDeltas
    /\ pc = "mouse"
    /\ last = NoEvent("init", DefaultOffsets)
    /\ watch = WatchOff

SpecFlat == InitFlat /\ [][Next]_vars

\* The program of SpecWatch with the history of the events of a loop
\* switched on.
InitBatch ==
    InitWith(DefaultPropagates, NestedSpeeds, NodeHeights, ContentHeights, {NoStyle},
             WatchBatch)

SpecBatch == InitBatch /\ [][Next]_vars

-----------------------------------------------------------------------------
(* Vocabulary of the properties. *)

ContentsOf(r) == {c \in Contents : \E k \in DOMAIN children[r] : children[r][k] = c}

ParentOf(c) == CHOOSE r \in Regions : c \in ContentsOf(r)

\* maxScroll = max(0, C - V), from the sizes as they are now
Overflow(c) ==
    LET d == content_h[c] - node_h[ParentOf(c)] IN IF d > 0 THEN d ELSE 0

InRange(c, p) == 0 - Overflow(c) <= p /\ p <= 0

ClampTo(x, m) == IF x > 0 THEN 0 ELSE IF x < 0 - m THEN 0 - m ELSE x

\* The state right after the resolution of one event.
AfterEvent == last.sys \in Systems

\* The candidates the last event was evaluated against (not skipped).
EvaluatedAt == {i \in DOMAIN last.evals : ~last.evals[i].skipped}

KidsAt(i) == {last.evals[i].kids[k] : k \in DOMAIN last.evals[i].kids}

\* The outcome of one delta application, from the locals of the loop body.
Outcome(kid) ==
    IF kid.max_scroll = 0 THEN "Inapplicable"
    ELSE IF kid.will_clamp THEN "AtBoundary" ELSE "Applied"

BothHovered == \A r \in Regions : interaction[r] = "Hovered"

\* Some content of the region has overflow.
HasOverflow(r) == \E c \in ContentsOf(r) : Overflow(c) > 0

\* Some content of the region takes the last event's delta without clipping.
Absorbs(r) ==
    \E c \in ContentsOf(r) :
        Overflow(c) > 0 /\ InRange(c, last.pre[c] + ChildDelta(last.ev, r))

NestedWheel == last.sys = "wheel" /\ BothHovered

-----------------------------------------------------------------------------
(* C1 *)

\* C1: right after the offset engine ran on a content, its offset lies in
\* [-max(0, C - V), 0], and it is 0 when max(0, C - V) = 0.
C1_ClampingPostcondition ==
    AfterEvent =>
        \A i \in EvaluatedAt : \A kid \in KidsAt(i) :
            /\ InRange(kid.child, pos_y[kid.child])
            /\ Overflow(kid.child) = 0 => pos_y[kid.child] = 0

\* A delta that overshoots the lower bound of a content with overflow was cut there.
C1_Witness ==
    /\ AfterEvent
    /\ \E i \in EvaluatedAt : \E kid \in KidsAt(i) :
        /\ Overflow(kid.child) > 0
        /\ last.pre[kid.child] + last.evals[i].y < 0 - Overflow(kid.child)
        /\ pos_y[kid.child] = 0 - Overflow(kid.child)

-----------------------------------------------------------------------------
(* C2 *)

\* C2 as stated: with both regions Hovered, the inner one not propagating and
\* with overflow, a wheel event leaves every outer content offset unchanged.
C2_InnermostFirst ==
    (NestedWheel /\ ~propagate["inner"] /\ HasOverflow("inner"))
        => \A c \in ContentsOf("outer") : pos_y[c] = last.pre[c]

\* C2 amended: the same, for the wheel events whose delta an inner content
\* takes without clipping at a bound.
C2_InnermostFirstWhenAbsorbed ==
    (NestedWheel /\ ~propagate["inner"] /\ Absorbs("inner"))
        => \A c \in ContentsOf("outer") : pos_y[c] = last.pre[c]

\* The inner region absorbed a wheel event that would have moved the outer content.
C2_Witness ==
    /\ NestedWheel /\ ~propagate["inner"] /\ Absorbs("inner")
    /\ last.ev.y # 0
    /\ \E c \in ContentsOf("outer") :
        /\ ClampTo(last.pre[c] + ChildDelta(last.ev, "outer"), Overflow(c)) # last.pre[c]
        /\ pos_y[c] = last.pre[c]

-----------------------------------------------------------------------------
(* C3 *)

\* C3 as stated: an evaluated candidate consumes the event exactly when it does
\* not propagate and some content's outcome is Applied or AtBoundary.
C3_ConsumesAppliedOrAtBoundary ==
    AfterEvent =>
        \A i \in EvaluatedAt :
            last.evals[i].consumed <=>
                (/\ ~propagate[last.evals[i].region]
                 /\ \E kid \in KidsAt(i) : Outcome(kid) \in {"Applied", "AtBoundary"})

\* C3 amended: an evaluated candidate consumes the event exactly when it does
\* not propagate and some content's outcome is Applied.
C3_ConsumesApplied ==
    AfterEvent =>
        \A i \in EvaluatedAt :
            last.evals[i].consumed <=>
                (/\ ~propagate[last.evals[i].region]
                 /\ \E kid \in KidsAt(i) : Outcome(kid) = "Applied")

\* A non-propagating region with overflow was clipped at a bound and did not consume.
C3_Witness ==
    /\ AfterEvent
    /\ \E i \in EvaluatedAt :
        /\ ~propagate[last.evals[i].region]
        /\ \E kid \in KidsAt(i) : Outcome(kid) = "AtBoundary"
        /\ ~last.evals[i].consumed

-----------------------------------------------------------------------------
(* C4 *)

\* The contents of the region all fit in its viewport.
AllFit(r) == \A c \in ContentsOf(r) : content_h[c] <= node_h[r]

\* C4: an evaluated candidate whose contents all fit in its viewport does not
\* consume the event, and the next candidate is evaluated, not skipped.
C4_TransparentWithoutOverflow ==
    AfterEvent =>
        \A i \in EvaluatedAt :
            AllFit(last.evals[i].region) =>
                /\ ~last.evals[i].consumed
                /\ i < Len(last.evals) => ~last.evals[i + 1].skipped

\* A non-propagating inner region without overflow let the event through to the
\* outer region, which moved.
C4_Witness ==
    /\ AfterEvent
    /\ Len(last.evals) > 1
    /\ ~last.evals[1].skipped
    /\ AllFit(last.evals[1].region)
    /\ ~propagate[last.evals[1].region]
    /\ ~last.evals[2].skipped
    /\ \E c \in ContentsOf(last.evals[2].region) : pos_y[c] # last.pre[c]

-----------------------------------------------------------------------------
(* C5 *)

\* C5: with both regions Hovered, the inner one propagating and with overflow,
\* a wheel event is evaluated against the outer region too: each outer content
\* with overflow moves to clamp(offset + outer delta, -maxScroll, 0).
C5_Propagation ==
    (NestedWheel /\ propagate["inner"] /\ HasOverflow("inner"))
        => \A c \in ContentsOf("outer") :
              Overflow(c) > 0 =>
                pos_y[c] = ClampTo(last.pre[c] + ChildDelta(last.ev, "outer"), Overflow(c))

\* The propagating inner region absorbed the event and the outer content moved too.
C5_Witness ==
    /\ NestedWheel /\ propagate["inner"] /\ Absorbs("inner")
    /\ last.evals[1].scroll_applied
    /\ \E c \in ContentsOf("outer") : Overflow(c) > 0 /\ pos_y[c] # last.pre[c]

-----------------------------------------------------------------------------
(* C6, under SpecClip *)

\* C6: the outcome is decided on the unclamped proposed position: AtBoundary
\* exactly when offset + delta leaves [-maxScroll, 0] of a content with
\* overflow, Applied exactly when it stays inside.  With maxScroll = 100:
\* +50 from 0 gives 0 and AtBoundary, -50 from 0 gives -50 and Applied, -80
\* from -50 gives -100 and AtBoundary.
C6_BoundaryClipping ==
    AfterEvent =>
        \A i \in EvaluatedAt : \A kid \in KidsAt(i) :
            LET c == kid.child
                y == last.evals[i].y
                from == last.pre[c]
                m == Overflow(c)
                out == from + y > 0 \/ from + y < 0 - m
            IN /\ Outcome(kid) = "AtBoundary" <=> (m > 0 /\ out)
               /\ Outcome(kid) = "Applied" <=> (m > 0 /\ ~out)
               /\ (m = 100 /\ from = 0 /\ y = 50)
                    => (pos_y[c] = 0 /\ Outcome(kid) = "AtBoundary")
               /\ (m = 100 /\ from = 0 /\ y = 0 - 50)
                    => (pos_y[c] = 0 - 50 /\ Outcome(kid) = "Applied")
               /\ (m = 100 /\ from = 0 - 50 /\ y = 0 - 80)
                    => (pos_y[c] = 0 - 100 /\ Outcome(kid) = "AtBoundary")

\* The last step of the sequence: -80 from -50 with maxScroll = 100.
C6_Witness ==
    /\ AfterEvent
    /\ \E i \in EvaluatedAt : \E kid \in KidsAt(i) :
        /\ Overflow(kid.child) = 100
        /\ last.pre[kid.child] = 0 - 50
        /\ last.evals[i].y = 0 - 80
        /\ pos_y[kid.child] = 0 - 100
        /\ Outcome(kid) = "AtBoundary"

-----------------------------------------------------------------------------
(* C7 *)

AllInRange == \A c \in Contents : InRange(c, pos_y[c])

\* C7 as stated: at the end of every cycle every content offset lies in
\* [-maxScroll, 0] for the sizes as they are.
C7_InRangeAtEndOfCycle == last.sys = "update" => AllInRange

\* C7 amended: an offset in [-maxScroll, 0] is still in it after every step
\* that is neither a layout change nor an external write of a value.
C7_RangeKeptByThePlugin ==
    [][\A c \in Contents :
          (InRange(c, pos_y[c]) /\ last'.sys \notin {"layout", "ext"})
              => InRange(c, pos_y[c])']_vars

\* The end of a cycle, every offset in range and one of them scrolled.
C7_Witness ==
    /\ last.sys = "update"
    /\ AllInRange
    /\ \E c \in Contents : pos_y[c] < 0

-----------------------------------------------------------------------------
(* C8, C9: under SpecWatch *)

\* C8 as stated: at the end of the cycle after an external write the offset
\* is in [-maxScroll, 0], and it is the value written if that was in range.
C8_ReclampedByNextCycle ==
    watch.stage = "done" =>
        /\ InRange(watch.c, pos_y[watch.c])
        /\ InRange(watch.c, watch.v) => pos_y[watch.c] = watch.v

\* C8 amended: at the end of the cycle after an external write the offset is
\* in [-maxScroll, 0] if an event of that cycle was evaluated against the
\* content, and it is the value written, in range or not, if none was.
C8_ReclampedWhenEvaluated ==
    watch.stage = "done" =>
        /\ watch.hit => InRange(watch.c, pos_y[watch.c])
        /\ ~watch.hit => pos_y[watch.c] = watch.v

\* An out-of-range value was written and an event of the next cycle clamped it.
C8_Witness ==
    /\ watch.stage = "done"
    /\ watch.hit
    /\ ~InRange(watch.c, watch.v)
    /\ InRange(watch.c, pos_y[watch.c])

\* The units an event of a system comes in.
InputUnits(sys) == IF sys = "wheel" THEN WheelUnits ELSE {"none"}

\* C9: after reset_scroll a content with overflow is still at 0 at the end
\* of the next cycle if no event of that cycle was evaluated against it, and
\* right after reset_scroll every event resolves as it does from the initial
\* offsets with the same sizes, interaction states and configuration.
C9_ResetAction ==
    /\ (watch.stage = "done" /\ watch.by = "reset" /\ ~watch.hit
            /\ Overflow(watch.c) > 0)
        => pos_y[watch.c] = 0
    /\ last.sys = "reset" =>
        \A sys \in Systems, dy \in RawDeltas : \A unit \in InputUnits(sys) :
            LET ev == [kind |-> sys, unit |-> unit, y |-> dy] IN
            /\ ResolveAt(pos_y, ev).pos = ResolveAt(DefaultOffsets, ev).pos
            /\ ResolveAt(pos_y, ev).evals = ResolveAt(DefaultOffsets, ev).evals

\* A scrolled content with overflow was reset and a cycle passed it by.
C9_Witness ==
    /\ watch.stage = "done" /\ watch.by = "reset" /\ ~watch.hit
    /\ watch.moved
    /\ Overflow(watch.c) > 0
    /\ pos_y[watch.c] = 0

-----------------------------------------------------------------------------
(* C10 *)

\* C10 as stated: an evaluation with a zero delta changes no content offset,
\* reports neither Applied nor AtBoundary and does not consume the event.
C10_ZeroDeltaIsNoOp ==
    AfterEvent =>
        \A i \in EvaluatedAt :
            last.evals[i].y = 0 =>
                /\ ~last.evals[i].consumed
                /\ \A kid \in KidsAt(i) :
                    /\ pos_y[kid.child] = last.pre[kid.child]
                    /\ Outcome(kid) \notin {"Applied", "AtBoundary"}

-----------------------------------------------------------------------------
(* C11 *)

Sign(x) == IF x > 0 THEN 1 ELSE IF x < 0 THEN 0 - 1 ELSE 0

\* The delta scroll_events derives for a region whose scroll_speed is speed.
WheelDeltaAt(ev, speed) == WheelChildDelta(WheelAmount(ev.unit, ev.y, speed), speed)

\* C11 as stated: for a content with overflow and an offset strictly inside
\* its range, the change a wheel event makes with the region's scroll_speed
\* negated has the opposite sign of the change it makes with the scroll_speed
\* as it is, for the Line and the Pixel unit.
C11_NegativeSpeedInverts ==
    last.sys = "wheel" =>
        \A i \in EvaluatedAt : \A kid \in KidsAt(i) :
            LET c == kid.child
                m == kid.max_scroll
                from == last.pre[c]
                negated == WheelDeltaAt(last.ev, 0 - scroll_speed[last.evals[i].region])
            IN (m > 0 /\ 0 - m < from /\ from < 0)
                 => Sign(NewOffset(from, negated, m) - from) = 0 - Sign(pos_y[c] - from)

-----------------------------------------------------------------------------
(* C12, under SpecSink *)

\* style.top of every content is Val::Px of its offset.
Synced == \A c \in Contents : top[c] = Px(pos_y[c])

\* The application's system ran as the last system of a frame's Update
\* schedule, after scroll_update: it is not ordered against the plugin's chain.
WroteAfterSink == last.sys = "update" /\ last'.sys \in {"ext", "reset"}

\* C12 as stated: at the end of every cycle style.top of each content equals
\* its offset, for the offsets input changed and for those external code set
\* in that cycle, wherever in the cycle it set them.
C12_SinkSeesFinalOffsets ==
    [][/\ last'.sys = "update" => Synced'
       /\ WroteAfterSink => Synced']_vars

\* C12 amended: right after scroll_update style.top of each content equals
\* its offset, for the offsets input changed and for those external code set
\* before scroll_update ran.
C12_SinkSeesOffsetsWrittenBeforeIt == last.sys = "update" => Synced

\* scroll_update positioned a scrolled content.
C12_Witness ==
    /\ last.sys = "update"
    /\ \E c \in Contents : pos_y[c] < 0 /\ top[c] = Px(pos_y[c])

-----------------------------------------------------------------------------
(* C13 *)

\* The offset an evaluation of candidate i leaves a content at, on the
\* vertical axis: the delta added, clamped against the two heights.
VerticalResult(i, c) == ClampTo(last.pre[c] + last.evals[i].y, Overflow(c))

-----------------------------------------------------------------------------
(* C14 *)

\* A candidate before position i in the order of evaluation set consumed.
ConsumedBefore(i) ==
    \E j \in 1..(i - 1) : ~last.evals[j].skipped /\ last.evals[j].consumed

\* C14: a candidate is evaluated exactly when no candidate before it in the
\* innermost-first order set consumed, and the offsets of a skipped
\* candidate's contents are left as they were, in range or not.
C14_SkipAfterConsumption ==
    AfterEvent =>
        \A i \in DOMAIN last.evals :
            /\ ~last.evals[i].skipped <=> ~ConsumedBefore(i)
            /\ last.evals[i].skipped =>
                  \A c \in ContentsOf(last.evals[i].region) : pos_y[c] = last.pre[c]

\* The inner region consumed; the outer one, whose content stood at an offset
\* out of its range, was skipped and the offset is still out of range.
C14_Witness ==
    /\ AfterEvent
    /\ \E i \in DOMAIN last.evals :
        /\ last.evals[i].skipped
        /\ \E c \in ContentsOf(last.evals[i].region) :
              ~InRange(c, last.pre[c]) /\ pos_y[c] = last.pre[c]

-----------------------------------------------------------------------------
(* C15 *)

Moved(c) == pos_y[c] # last.pre[c]

\* C15: a wheel event changes the offset only of contents of Hovered regions,
\* a mouse or touch drag only of contents of Pressed regions.
C15_CandidateSelection ==
    AfterEvent =>
        \A c \in Contents :
            Moved(c) => interaction[ParentOf(c)] = WantedInteraction(last.sys)

\* An event moved the content of one region and left alone the content of the
\* other, which is in another interaction state and which the same delta
\* would have moved.
C15_Witness ==
    /\ AfterEvent
    /\ \E c, d \in Contents :
        /\ Moved(c)
        /\ interaction[ParentOf(d)] \in {"Hovered", "Pressed"}
        /\ interaction[ParentOf(d)] # WantedInteraction(last.sys)
        /\ ~Moved(d)
        /\ ClampTo(last.pre[d] + ChildDelta(last.ev, ParentOf(d)), Overflow(d)) # last.pre[d]

-----------------------------------------------------------------------------
(* C16, under SpecWheel *)

\* frameDeltaSeconds * scrollSpeed of a region
SpeedFactor(r) == delta_secs * scroll_speed[r]

\* The delta the claim gives a wheel event for a region.
ClaimedWheelDelta(ev, r) ==
    IF ev.unit = "Line" THEN ev.y * SpeedFactor(r) * SpeedFactor(r)
    ELSE ev.y * SpeedFactor(r)

\* C16: the delta a wheel event applies to the contents of an evaluated region
\* is rawY * (frameDeltaSeconds * scrollSpeed)^2 for the Line unit and
\* rawY * frameDeltaSeconds * scrollSpeed for the Pixel unit, with the
\* scroll_speed of that region.
C16_WheelDeltaDerivation ==
    last.sys = "wheel" =>
        \A i \in EvaluatedAt :
            /\ last.evals[i].y = ClaimedWheelDelta(last.ev, last.evals[i].region)
            /\ \A kid \in KidsAt(i) :
                  kid.new_pos = last.pre[kid.child]
                                  + ClaimedWheelDelta(last.ev, last.evals[i].region)

\* One Line event in a frame of length 2 moved the inner content by
\* rawY * 4 and the outer content by rawY * 16.
C16_Witness ==
    /\ last.sys = "wheel" /\ last.ev.unit = "Line" /\ last.ev.y # 0
    /\ delta_secs = 2
    /\ Len(last.evals) = 2
    /\ \A i \in 1..2 : ~last.evals[i].skipped
    /\ pos_y["b"] = last.pre["b"] + last.ev.y * 4
    /\ pos_y["a"] = last.pre["a"] + last.ev.y * 16

-----------------------------------------------------------------------------
(* C17 *)

Drags == {"mouse", "touch"}

\* The last drag event as the other device would have delivered it.
OtherDevice == [last.ev EXCEPT !.kind = IF @ = "mouse" THEN "touch" ELSE "mouse"]

\* C17: in a drag the proposed position is the offset plus the raw delta,
\* whatever scroll_speed and the frame time are, and the same state and delta
\* give the same offsets and the same consumption for a mouse motion and for
\* a touch.
C17_DragOneToOne ==
    last.sys \in Drags =>
        /\ \A i \in EvaluatedAt :
              /\ last.evals[i].y = last.ev.y
              /\ \A kid \in KidsAt(i) : kid.new_pos = last.pre[kid.child] + last.ev.y
        /\ ResolveAt(last.pre, OtherDevice).pos = pos_y
        /\ ResolveAt(last.pre, OtherDevice).evals = last.evals

\* A touch moved the content of a region whose scroll_speed is not 1 by the
\* raw delta.
C17_Witness ==
    /\ last.sys = "touch" /\ last.ev.y # 0
    /\ \E i \in EvaluatedAt : \E kid \in KidsAt(i) :
        /\ scroll_speed[last.evals[i].region] # 1
        /\ pos_y[kid.child] = last.pre[kid.child] + last.ev.y

-----------------------------------------------------------------------------
(* C18, under SpecFlat *)

\* C18: in an evaluated region with several content children each offset is
\* the offset before plus the delta, clamped against that content's own
\* height, and the region sets scroll_applied, and with propagate false
\* consumed, exactly when the outcome for at least one child qualifies.
C18_ChildrenIndependent ==
    AfterEvent =>
        \A i \in EvaluatedAt :
            Len(last.evals[i].kids) > 1 =>
                /\ \A kid \in KidsAt(i) :
                      /\ kid.max_scroll = Overflow(kid.child)
                      /\ pos_y[kid.child] = VerticalResult(i, kid.child)
                /\ last.evals[i].scroll_applied
                      <=> \E kid \in KidsAt(i) : Outcome(kid) = "Applied"
                /\ last.evals[i].consumed
                      <=> (/\ ~propagate[last.evals[i].region]
                           /\ \E kid \in KidsAt(i) : Outcome(kid) = "Applied")

\* The first child took the delta, the last one has no overflow, and the
\* region consumed the event.
C18_Witness ==
    /\ AfterEvent
    /\ \E i \in EvaluatedAt :
        /\ Len(last.evals[i].kids) = 2
        /\ Outcome(last.evals[i].kids[1]) = "Applied"
        /\ Outcome(last.evals[i].kids[2]) = "Inapplicable"
        /\ pos_y[last.evals[i].kids[1].child] # last.pre[last.evals[i].kids[1].child]
        /\ last.evals[i].consumed

-----------------------------------------------------------------------------
(* C19, under SpecFlat *)

\* The content children of a region, in the order of its Children.
ContentChildren(r) == SelectSeq(children[r], IsContent)

\* C19: the evaluation of a region passes over a child that is not a content
\* and evaluates the content children before and after it, each once and in
\* order; no offset exists but those of the contents; a region without a
\* content child does not set scroll_applied, does not consume, and the next
\* candidate is evaluated.
C19_LookupMiss ==
    /\ DOMAIN pos_y = Contents
    /\ AfterEvent =>
        \A i \in EvaluatedAt :
            LET r == last.evals[i].region IN
            /\ Len(last.evals[i].kids) = Len(ContentChildren(r))
            /\ \A k \in DOMAIN last.evals[i].kids :
                  last.evals[i].kids[k].child = ContentChildren(r)[k]
            /\ ContentChildren(r) = <<>> =>
                  /\ ~last.evals[i].scroll_applied
                  /\ ~last.evals[i].consumed
                  /\ i < Len(last.evals) => ~last.evals[i + 1].skipped

\* The inner region, without a content child, let the event through; in the
\* outer region the content after the plain node moved.
C19_Witness ==
    /\ AfterEvent
    /\ Len(last.evals) = 2
    /\ ContentChildren(last.evals[1].region) = <<>>
    /\ ~propagate[last.evals[1].region]
    /\ ~last.evals[2].skipped
    /\ children[last.evals[2].region] = <<"a", "label", "b">>
    /\ pos_y["b"] # last.pre["b"]

-----------------------------------------------------------------------------
(* C20, under SpecBatch *)

\* The regions of the last event's log, in the order of evaluation.
LoggedRegions == [i \in DOMAIN last.evals |-> last.evals[i].region]

\* C20: consumed starts false for every event, so the innermost candidate of
\* every event is evaluated whatever the event before it did, and the
\* candidates of every event are the regions in the wanted interaction state,
\* innermost first.
C20_PerEventResolution ==
    AfterEvent =>
        /\ LoggedRegions = Candidates(WantedInteraction(last.sys))
        /\ Len(last.evals) > 0 => ~last.evals[1].skipped

\* The inner region consumed an event; the next event of the same loop was
\* evaluated against the inner region and then against the outer one, whose
\* content moved.
C20_Witness ==
    /\ AfterEvent
    /\ watch.stage = "batch" /\ watch.hit
    /\ Len(last.evals) = 2
    /\ ~last.evals[1].skipped /\ ~last.evals[2].skipped
    /\ \E c \in ContentsOf(last.evals[2].region) : pos_y[c] # last.pre[c]

====
